---------------------------- MODULE Spec2Model ----------------------------
(***************************************************************************)
(* Dispatch engine of EnerJee: the LP optimizer (optimization.py,          *)
(* multiday_optimization.py), the greedy baseline (greedy_baseline.py),    *)
(* the carbon-intensity lookup (carbon_intensity.py) and the price sweep   *)
(* (sensitivity_analysis.py).                                              *)
(*                                                                         *)
(* Number representation.  The code computes in floating point; the model  *)
(* computes exactly, in integers:                                          *)
(*   - energies used in an hour (solar_use, ..., unmet_demand) are whole   *)
(*     MWh;                                                                *)
(*   - battery levels are held in tenths of a MWh (suffix 10), so that the *)
(*     0.9 charge efficiency is exact: level10' = level10 + 9*c - 10*d;    *)
(*   - carbon intensities are held in twentieths (suffix 20), the time     *)
(*     multipliers 0.85 .. 1.25 being multiples of 0.05;                   *)
(*   - cost_weight and emission_weight are held in halves (suffix 2);      *)
(*   - total_cost is held in tenths (the factors 0.5/0.6/0.7), the         *)
(*     objective in four-hundredths (suffix 400).                          *)
(* The LP solver is modelled by what it returns: any point of the feasible *)
(* set that minimises the objective, found by backward induction over the  *)
(* hours on the battery level.  The feasible set is enumerated on a grid   *)
(* (call.grid MWh per step).                                               *)
(***************************************************************************)
EXTENDS Integers, Sequences, FiniteSets, TLC

VARIABLES
    call,        \* the arguments of the call: entry point, forecast_df, battery, weights
    pc,          \* position in the called function
    prob,        \* the pulp problem as built: which constraints it holds
    cost_to_go,  \* the solver's table: hour -> (battery level -> least objective from there)
    results,     \* the results dictionary under construction / returned
    battery_level \* greedy_energy_mix's running battery level (a rational)

vars == <<call, pc, prob, cost_to_go, results, battery_level>>

-----------------------------------------------------------------------------
(* Bounds of the model *)

MaxDemand == 2
MaxAvail == 1
MultiDayExtra == 1
GreedyHours == 3
GreedyMaxAvail == 2
MaxHour == 49

(* Program constants *)

HoursPerDay == 24
penalty == 10000
efficiency10 == 9
emission_solar == 45
emission_wind == 12
emission_hydro == 24
cost_solar10 == 5
cost_wind10 == 6
cost_hydro10 == 7

Sources == {"solar", "wind", "hydro"}

emission_factors == [solar |-> emission_solar, wind |-> emission_wind, hydro |-> emission_hydro]

Min(S) == CHOOSE x \in S : \A y \in S : x <= y

\* Exact rationals num/den, den > 0, in lowest terms: the greedy dispatcher
\* divides (by the efficiency, by the total excess), the optimizer's grid does not.
RECURSIVE GCD(_, _)
GCD(a, b) == IF b = 0 THEN a ELSE GCD(b, a % b)

Abs(x) == IF x < 0 THEN 0 - x ELSE x

Rat(n, d) ==
    LET g == GCD(Abs(n), d)
    IN  IF n = 0 THEN [num |-> 0, den |-> 1] ELSE [num |-> n \div g, den |-> d \div g]

R(x) == [num |-> x, den |-> 1]

RatAdd(x, y) == Rat(x.num * y.den + y.num * x.den, x.den * y.den)

RatSub(x, y) == Rat(x.num * y.den - y.num * x.den, x.den * y.den)

RatMul(x, y) == Rat(x.num * y.num, x.den * y.den)

\* x / y for y > 0
RatDiv(x, y) == Rat(x.num * y.den, x.den * y.num)

RatLe(x, y) == x.num * y.den <= y.num * x.den

RatLt(x, y) == x.num * y.den < y.num * x.den

\* Python's min: the first of the least
RatMin(x, y) == IF RatLt(y, x) THEN y ELSE x

RatMin3(x, y, z) == RatMin(RatMin(x, y), z)

-----------------------------------------------------------------------------
(* carbon_intensity.py *)

\* mutant: the bands closed on the right
time_multiplier20_closed_bands(hour) ==
    IF 0 <= hour /\ hour <= 6 THEN 17
    ELSE IF 6 < hour /\ hour <= 9 THEN 20
    ELSE IF 9 < hour /\ hour <= 17 THEN 23
    ELSE IF 17 < hour /\ hour <= 21 THEN 25
    ELSE 19

\* lines 30-44: time_multiplier, in twentieths
time_multiplier20(hour) ==
    IF 0 <= hour /\ hour < 6 THEN 17
    ELSE IF 6 <= hour /\ hour < 9 THEN 20
    ELSE IF 9 <= hour /\ hour < 17 THEN 23
    ELSE IF 17 <= hour /\ hour < 21 THEN 25
    ELSE 19

\* line 46: base_emissions.get(source, 0) * time_multiplier, in twentieths
get_carbon_intensity20(hour, source) ==
    (IF source \in DOMAIN emission_factors THEN emission_factors[source] ELSE 0)
        * time_multiplier20(hour)

\* the row get_all_carbon_intensities appends for `hour` (lines 62-67)
intensity_row(hour) ==
    [hour |-> hour % HoursPerDay,
     solar_intensity20 |-> get_carbon_intensity20(hour % HoursPerDay, "solar"),
     wind_intensity20 |-> get_carbon_intensity20(hour % HoursPerDay, "wind"),
     hydro_intensity20 |-> get_carbon_intensity20(hour % HoursPerDay, "hydro")]

-----------------------------------------------------------------------------
(* The forecast series: row t of forecast_df.  A series is a short pattern  *)
(* of hour records repeated over the horizon, its timestamps hourly from    *)
(* hour-of-day call.h0.                                                     *)

Row(c, t) == c.pattern[(t % Len(c.pattern)) + 1]

hour_of_day(c, t) == (c.h0 + t) % HoursPerDay

max_rate(c) == c.battery_capacity \div 5

Steps(c, hi) == {x \in 0..hi : x % c.grid = 0}

-----------------------------------------------------------------------------
(* The LP of optimize_energy_mix / optimize_multiday_energy_mix *)

\* intensity used in the objective for hour t (lines 70-80)
objective_intensity20(c, t, source) ==
    IF c.use_time_varying_carbon
    THEN get_carbon_intensity20(hour_of_day(c, t), source)
    ELSE 20 * emission_factors[source]

\* mutant: the unmet demand weighted 1, not 10000
hour_objective400_unit_penalty(c, t, a) ==
    LET price == Row(c, t).price
    IN  c.cost_weight2 * 20 * price
            * (cost_solar10 * a.solar_use + cost_wind10 * a.wind_use + cost_hydro10 * a.hydro_use)
        + c.emission_weight2
            * ( a.solar_use * objective_intensity20(c, t, "solar")
              + a.wind_use * objective_intensity20(c, t, "wind")
              + a.hydro_use * objective_intensity20(c, t, "hydro"))
        + 400 * a.unmet_demand

\* objective contribution of one hour's allocation (lines 59-99), in 1/400
hour_objective400(c, t, a) ==
    LET price == Row(c, t).price
    IN  c.cost_weight2 * 20 * price
            * (cost_solar10 * a.solar_use + cost_wind10 * a.wind_use + cost_hydro10 * a.hydro_use)
        + c.emission_weight2
            * ( a.solar_use * objective_intensity20(c, t, "solar")
              + a.wind_use * objective_intensity20(c, t, "wind")
              + a.hydro_use * objective_intensity20(c, t, "hydro"))
        + penalty * 400 * a.unmet_demand

\* mutant: the efficiency left out of the dynamics
next_level10_lossless(l, a) == l + 10 * a.battery_charge - 10 * a.battery_discharge

\* level after hour t (Battery_dynamics_t)
next_level10(l, a) == l + efficiency10 * a.battery_charge - 10 * a.battery_discharge

\* Charge_rate_t, Discharge_rate_t, No_simultaneous_t (lines 129-134): the
\* right-hand sides of the three rate constraints
charge_rate(c) == max_rate(c)

\* mutant: the discharge limit taken as 10% of the capacity
discharge_rate_halved(c) == max_rate(c) \div 2

discharge_rate(c) == max_rate(c)

\* mutant: the combined limit taken as the sum of the two limits
no_simultaneous_doubled(c) == 2 * max_rate(c)

no_simultaneous(c) == max_rate(c)

\* Solar_limit_t, Wind_limit_t, Hydro_limit_t (lines 116-118): right-hand sides
source_limit(r, source) ==
    IF source = "solar" THEN r.solar_available
    ELSE IF source = "wind" THEN r.wind_available
    ELSE r.hydro_available

\* mutant: the charge left out of the balance
balance_unmet_no_charge(r, s, w, h, chg, dis) == r.demand - s - w - h - dis

\* Demand_constraint_t (lines 109-113) solved for the slack variable
balance_unmet(r, s, w, h, chg, dis) == r.demand - s - w - h - dis + chg

\* lowBound/upBound of battery_level (line 47)
level_bounds(c, l) == 0 <= l /\ l <= 10 * c.battery_capacity

\* mutant: charging and discharging made exclusive, as by a binary variable
HourAllocations_either_or(c, t, l) ==
    LET r == Row(c, t)
        all == { [solar_use |-> s, wind_use |-> w, hydro_use |-> h,
                  battery_charge |-> chg, battery_discharge |-> dis,
                  unmet_demand |-> balance_unmet(r, s, w, h, chg, dis)] :
                    s \in Steps(c, source_limit(r, "solar")),
                    w \in Steps(c, source_limit(r, "wind")),
                    h \in Steps(c, source_limit(r, "hydro")),
                    chg \in Steps(c, charge_rate(c)),
                    dis \in Steps(c, discharge_rate(c)) }
    IN  { a \in all :
            /\ a.battery_charge = 0 \/ a.battery_discharge = 0
            /\ a.unmet_demand >= 0
            /\ level_bounds(c, l)
            /\ level_bounds(c, next_level10(l, a)) }

\* the values the variables of hour t can take at battery level l: every
\* constraint of the hour and the variables' bounds (lines 40-50, 102-134)
HourAllocations(c, t, l) ==
    LET r == Row(c, t)
        all == { [solar_use |-> s, wind_use |-> w, hydro_use |-> h,
                  battery_charge |-> chg, battery_discharge |-> dis,
                  unmet_demand |-> balance_unmet(r, s, w, h, chg, dis)] :
                    s \in Steps(c, source_limit(r, "solar")),
                    w \in Steps(c, source_limit(r, "wind")),
                    h \in Steps(c, source_limit(r, "hydro")),
                    chg \in Steps(c, charge_rate(c)),
                    dis \in Steps(c, discharge_rate(c)) }
    IN  { a \in all :
            /\ a.battery_charge + a.battery_discharge <= no_simultaneous(c)
            /\ a.unmet_demand >= 0
            /\ level_bounds(c, l)
            /\ level_bounds(c, next_level10(l, a)) }

\* the values battery_level[t] (in tenths) can take under the constraints of
\* the hours before t, from battery_level[0] = battery_initial (line 53)
RECURSIVE Levels10(_, _)
Levels10(c, t) ==
    IF t = 0
    THEN {c.battery_initial10}
    ELSE UNION { { next_level10(l, a) : a \in HourAllocations(c, t - 1, l) } :
                   l \in Levels10(c, t - 1) }

\* mutant: the band taken as 40%-60% of the capacity
end_band_narrow(c, l) == 4 * c.battery_capacity <= l /\ l <= 6 * c.battery_capacity

\* Min_end_battery, Max_end_battery (multiday lines 126-129), in tenths
end_band(c, l) == 2 * c.battery_capacity <= l /\ l <= 8 * c.battery_capacity

\* the constraints on battery_level[hours] in the problem p
terminal_ok(c, p, l) == p.end_band => end_band(c, l)

\* The solver's table maps a battery level to the set holding the least
\* objective of the hours from t on, started at that level: empty when no
\* allocation of those hours satisfies the constraints.

\* the table of hour `hours`: nothing left to pay, the end constraints decide
terminal_table(c, p) ==
    [l \in Levels10(c, c.hours) |-> IF terminal_ok(c, p, l) THEN {0} ELSE {}]

\* least objective over hours t.. from level l, given the table `later` of hour t+1
Bellman(c, t, l, later) ==
    LET cands == UNION { { hour_objective400(c, t, a) + v : v \in later[next_level10(l, a)] } :
                           a \in HourAllocations(c, t, l) }
    IN  IF cands = {} THEN {} ELSE {Min(cands)}

\* the values of hour t's variables, at level l, in the optimal solutions
OptimalAllocations(c, t, l, table) ==
    { a \in HourAllocations(c, t, l) :
        \E v \in table[t + 1][next_level10(l, a)] :
            hour_objective400(c, t, a) + v \in table[t][l] }

-----------------------------------------------------------------------------
(* The results dictionary *)

NoRow == [hour |-> 0 - 1]

NoLevel == [num |-> 0, den |-> 1]

\* the columns of results_df that the totals read, summed over the rows so far
NoSums == [cost10 |-> 0, emissions_fixed |-> 0, emissions_varying20 |-> 0, unmet |-> 0]

\* hour_result of hour t (lines 157-171) for the solved values a, from level l
hour_result(c, t, l, a) ==
    [hour |-> t,
     hour_of_day |-> hour_of_day(c, t),
     demand |-> Row(c, t).demand,
     solar_use |-> a.solar_use,
     wind_use |-> a.wind_use,
     hydro_use |-> a.hydro_use,
     battery_charge |-> a.battery_charge,
     battery_discharge |-> a.battery_discharge,
     battery_level10 |-> next_level10(l, a),
     unmet_demand |-> a.unmet_demand,
     price |-> Row(c, t).price]

\* mutant: every source costed at the solar factor
row_cost10_flat(row) ==
    row.price * cost_solar10 * (row.solar_use + row.wind_use + row.hydro_use)

\* one row's contribution to the sums of lines 176-188 (and multiday 172-196)
row_cost10(row) ==
    row.price * (cost_solar10 * row.solar_use + cost_wind10 * row.wind_use
                    + cost_hydro10 * row.hydro_use)

row_emissions_fixed(row) ==
    row.solar_use * emission_factors["solar"] + row.wind_use * emission_factors["wind"]
        + row.hydro_use * emission_factors["hydro"]

row_emissions_varying20(row) ==
    row.solar_use * get_carbon_intensity20(row.hour_of_day, "solar")
        + row.wind_use * get_carbon_intensity20(row.hour_of_day, "wind")
        + row.hydro_use * get_carbon_intensity20(row.hour_of_day, "hydro")

add_row(sums, row) ==
    [cost10 |-> sums.cost10 + row_cost10(row),
     emissions_fixed |-> sums.emissions_fixed + row_emissions_fixed(row),
     emissions_varying20 |-> sums.emissions_varying20 + row_emissions_varying20(row),
     unmet |-> sums.unmet + row.unmet_demand]

\* results['total_emissions'], in twentieths:
\* optimize_energy_mix lines 182-186, optimize_multiday_energy_mix lines 178-194
total_emissions20(c, sums) ==
    IF c.entry = "optimize_multiday_energy_mix" /\ c.use_time_varying_carbon
    THEN sums.emissions_varying20
    ELSE 20 * sums.emissions_fixed

-----------------------------------------------------------------------------
(* The calls *)

Entries == {"optimize_energy_mix", "optimize_multiday_energy_mix"}

HighPrice == 25000

Availabilities ==
    [solar_available : 0..MaxAvail, wind_available : 0..MaxAvail, hydro_available : 0..MaxAvail]

HourRecord(d, av, p) ==
    [demand |-> d, solar_available |-> av.solar_available,
     wind_available |-> av.wind_available, hydro_available |-> av.hydro_available,
     price |-> p]

HourRecords == { HourRecord(d, av, 1) : d \in 0..MaxDemand, av \in Availabilities }

\* the same hour with no generation / at a price the penalty does not dominate
Dark(r) == [r EXCEPT !.solar_available = 0, !.wind_available = 0, !.hydro_available = 0]

Dear(r) == [r EXCEPT !.price = HighPrice]

Patterns == UNION { { <<r>>, <<r, Dark(r)>>, <<r, Dear(r)>> } : r \in HourRecords }

Weights == {<<2, 0>>, <<1, 1>>, <<0, 2>>}

Call(e, n, pat, i10, w, tv) ==
    [entry |-> e, hours |-> n, h0 |-> 5, pattern |-> pat,
     battery_capacity |-> 5, battery_initial10 |-> i10,
     cost_weight2 |-> w[1], emission_weight2 |-> w[2],
     use_time_varying_carbon |-> tv, grid |-> 1]

\* series of one hour and of two hours
ShortCalls ==
    { Call(e, 1, <<r>>, i10, w, tv) :
        e \in Entries, r \in HourRecords, i10 \in {0, 25, 50},
        w \in Weights, tv \in BOOLEAN }
    \cup
    { Call(e, 2, pat, i10, w, tv) :
        e \in Entries, pat \in Patterns, i10 \in {0, 25, 50},
        w \in Weights, tv \in BOOLEAN }

\* series of a day and of more than a day: the same hour record every hour
LongCalls ==
    { Call(e, n, <<r>>, i10, <<1, 1>>, TRUE) :
        e \in Entries, n \in {HoursPerDay, HoursPerDay + MultiDayExtra},
        r \in { x \in HourRecords : x.wind_available = 0 /\ x.hydro_available = 0 },
        i10 \in {0, 25, 50} }

\* the single-hour scenario: demand=100, solar_available=150, wind=hydro=0,
\* price=50, capacity=500, initial=250, cost_weight=1.0, emission_weight=0.0
Scenario ==
    [entry |-> "optimize_energy_mix", hours |-> 1, h0 |-> 5,
     pattern |-> << [demand |-> 100, solar_available |-> 150, wind_available |-> 0,
                     hydro_available |-> 0, price |-> 50] >>,
     battery_capacity |-> 500, battery_initial10 |-> 2500,
     cost_weight2 |-> 2, emission_weight2 |-> 0,
     use_time_varying_carbon |-> TRUE, grid |-> 50]

\* a battery whose max_rate is two steps of the grid: capacity 10, max_rate 2,
\* started at half charge and just above 80%
WideRateCalls ==
    { [Call(e, n, <<HourRecord(d, [solar_available |-> s, wind_available |-> 0,
                                   hydro_available |-> 0], 1)>>, i10, w, FALSE)
          EXCEPT !.battery_capacity = 10] :
        e \in Entries, n \in {1, 2}, d \in 0..1, s \in 0..1, i10 \in {50, 81},
        w \in Weights }

Calls == ShortCalls \cup LongCalls \cup {Scenario} \cup WideRateCalls

-----------------------------------------------------------------------------
(* The optimizer as a state machine *)

Init ==
    /\ call \in Calls
    /\ pc = "start"
    /\ prob = [end_band |-> FALSE]
    /\ cost_to_go = <<>>
    /\ results = [status |-> "none"]
    /\ battery_level = NoLevel

\* optimize_energy_mix lines 22-134: the problem has no end constraint
optimize_energy_mix_build ==
    /\ pc = "start"
    /\ call.entry = "optimize_energy_mix"
    /\ prob' = [end_band |-> FALSE]
    /\ cost_to_go' = (call.hours :> terminal_table(call, prob'))
    /\ pc' = "solve"
    /\ UNCHANGED <<call, results, battery_level>>

\* optimize_multiday_energy_mix lines 24-129: Min_end_battery, Max_end_battery
optimize_multiday_energy_mix_build ==
    /\ pc = "start"
    /\ call.entry = "optimize_multiday_energy_mix"
    /\ prob' = [end_band |-> TRUE]
    /\ cost_to_go' = (call.hours :> terminal_table(call, prob'))
    /\ pc' = "solve"
    /\ UNCHANGED <<call, results, battery_level>>

\* prob.solve: one hour of the backward induction
solve_hour ==
    /\ pc = "solve"
    /\ \E t \in 0..(call.hours - 1) :
        /\ t \notin DOMAIN cost_to_go
        /\ t + 1 \in DOMAIN cost_to_go
        /\ cost_to_go' = (t :> [l \in Levels10(call, t) |-> Bellman(call, t, l, cost_to_go[t + 1])])
                            @@ cost_to_go
    /\ UNCHANGED <<call, pc, prob, results, battery_level>>

\* prob.status after the solve: Optimal iff the constraints can be met from
\* battery_level[0] == battery_initial (line 53)
solve_status ==
    IF cost_to_go[0][call.battery_initial10] = {} THEN "Infeasible" ELSE "Optimal"

\* mutant: a failed solve answered with a plan labelled Greedy
solve_failed_greedy_fallback ==
    /\ pc = "solve"
    /\ 0 \in DOMAIN cost_to_go
    /\ solve_status # "Optimal"
    /\ results' = [status |-> "Greedy", error |-> FALSE, n |-> call.hours,
                   total_cost |-> "inf", total_emissions |-> "inf", total_unmet |-> "inf"]
    /\ pc' = "done"
    /\ UNCHANGED <<call, prob, cost_to_go, battery_level>>

\* lines 140-148: the failure result
solve_failed ==
    /\ pc = "solve"
    /\ 0 \in DOMAIN cost_to_go
    /\ solve_status # "Optimal"
    /\ results' = [status |-> solve_status, error |-> TRUE, n |-> 0,
                   total_cost |-> "inf", total_emissions |-> "inf", total_unmet |-> "inf"]
    /\ pc' = "done"
    /\ UNCHANGED <<call, prob, cost_to_go, battery_level>>

\* lines 151-155
solve_optimal ==
    /\ pc = "solve"
    /\ 0 \in DOMAIN cost_to_go
    /\ solve_status = "Optimal"
    /\ results' = [status |-> "Optimal", error |-> FALSE, n |-> 0,
                   objective_value400 |-> Min(cost_to_go[0][call.battery_initial10]),
                   level_before10 |-> call.battery_initial10,
                   hour_result |-> NoRow, sums |-> NoSums]
    /\ pc' = "extract"
    /\ UNCHANGED <<call, prob, cost_to_go, battery_level>>

\* lines 157-171: the row of hour t, read from the solved variables
extract_hour ==
    /\ pc = "extract"
    /\ results.n < call.hours
    /\ LET t == results.n
           l == IF t = 0 THEN call.battery_initial10 ELSE results.hour_result.battery_level10
       IN  \E a \in OptimalAllocations(call, t, l, cost_to_go) :
             LET row == hour_result(call, t, l, a)
             IN  results' = [results EXCEPT !.n = t + 1,
                                            !.level_before10 = l,
                                            !.hour_result = row,
                                            !.sums = add_row(results.sums, row)]
    /\ UNCHANGED <<call, pc, prob, cost_to_go, battery_level>>

\* lines 173-190: the totals
totals ==
    /\ pc = "extract"
    /\ results.n = call.hours
    /\ results' = [status |-> results.status, error |-> FALSE, n |-> results.n,
                   objective_value400 |-> results.objective_value400,
                   level_before10 |-> results.level_before10,
                   hour_result |-> results.hour_result, sums |-> results.sums,
                   total_cost10 |-> results.sums.cost10,
                   total_emissions20 |-> total_emissions20(call, results.sums),
                   total_unmet |-> results.sums.unmet]
    /\ pc' = "done"
    /\ UNCHANGED <<call, prob, cost_to_go, battery_level>>

Next ==
    \/ optimize_energy_mix_build
    \/ optimize_multiday_energy_mix_build
    \/ solve_hour
    \/ solve_failed
    \/ solve_optimal
    \/ extract_hour
    \/ totals

Spec == Init /\ [][Next]_vars

-----------------------------------------------------------------------------
(* greedy_baseline.py *)

efficiency == Rat(9, 10)

\* mutant: max_rate taken as 25% of the capacity
greedy_max_rate_quarter(c) == Rat(c.battery_capacity, 4)

\* max_rate = battery_capacity * 0.2 (line 26)
greedy_max_rate(c) == Rat(c.battery_capacity, 5)

\* mutant: the discharge limited to half of max_rate
greedy_discharge_half_rate(c, remaining_demand, level) ==
    RatMin3(remaining_demand, RatDiv(greedy_max_rate(c), R(2)), level)

\* line 62
greedy_discharge(c, remaining_demand, level) ==
    RatMin3(remaining_demand, greedy_max_rate(c), level)

\* mutant: the room left in the battery not considered
greedy_charge_unbounded(c, total_excess, level) ==
    RatMin(total_excess, greedy_max_rate(c))

\* line 78
greedy_charge(c, total_excess, level) ==
    RatMin3(total_excess, greedy_max_rate(c),
            RatDiv(RatSub(R(c.battery_capacity), level), efficiency))

\* mutant: the source used in full, whatever demand is left
greedy_source_use_ignores_remaining(avail, remaining_demand) ==
    IF RatLt(R(0), remaining_demand) THEN avail ELSE R(0)

\* mutant: half of the source kept back from the demand
greedy_source_use_half(avail, remaining_demand) ==
    IF RatLt(R(0), remaining_demand)
    THEN RatMin(RatDiv(avail, R(2)), remaining_demand)
    ELSE R(0)

\* lines 51-53, 56-58: wind_use, hydro_use
greedy_source_use(avail, remaining_demand) ==
    IF RatLt(R(0), remaining_demand) THEN RatMin(avail, remaining_demand) ELSE R(0)

\* mutant: the charge not attributed to the sources
greedy_attribute_none(use, excess, charge_fraction) == use

\* lines 84-86: solar_use += excess_solar * charge_fraction, and so on
greedy_attribute(use, excess, charge_fraction) ==
    RatAdd(use, RatMul(excess, charge_fraction))

\* one pass of the loop body, lines 29-100: the row and the level carried on
greedy_step(c, t, level) ==
    LET r == Row(c, t)
        demand == R(r.demand)
        solar_avail == R(r.solar_available)
        wind_avail == R(r.wind_available)
        hydro_avail == R(r.hydro_available)
        \* 1. solar, 2. wind, 3. hydro (lines 47-58)
        solar1 == RatMin(solar_avail, demand)
        rem1 == RatSub(demand, solar1)
        wind1 == greedy_source_use(wind_avail, rem1)
        rem2 == RatSub(rem1, wind1)
        hydro1 == greedy_source_use(hydro_avail, rem2)
        rem3 == RatSub(rem2, hydro1)
        \* 4. discharge (lines 61-64)
        dis == IF RatLt(R(0), rem3) THEN greedy_discharge(c, rem3, level) ELSE R(0)
        level1 == RatSub(level, dis)
        rem4 == RatSub(rem3, dis)
        \* 5. unmet (lines 67-68)
        unmet == IF RatLt(R(0), rem4) THEN rem4 ELSE R(0)
        \* excess (lines 71-74)
        excess_solar == RatSub(solar_avail, solar1)
        excess_wind == RatSub(wind_avail, wind1)
        excess_hydro == RatSub(hydro_avail, hydro1)
        total_excess == RatAdd(RatAdd(excess_solar, excess_wind), excess_hydro)
        charging == RatLt(R(0), total_excess)
        \* charge and attribution (lines 77-86)
        chg == IF charging THEN greedy_charge(c, total_excess, level1) ELSE R(0)
        level2 == IF charging THEN RatAdd(level1, RatMul(chg, efficiency)) ELSE level1
        charge_fraction == IF charging THEN RatDiv(chg, total_excess) ELSE R(0)
    IN  [hour |-> t,
         hour_of_day |-> hour_of_day(c, t),
         demand |-> demand,
         solar_use |-> greedy_attribute(solar1, excess_solar, charge_fraction),
         wind_use |-> greedy_attribute(wind1, excess_wind, charge_fraction),
         hydro_use |-> greedy_attribute(hydro1, excess_hydro, charge_fraction),
         battery_charge |-> chg,
         battery_discharge |-> dis,
         battery_level |-> level2,
         unmet_demand |-> unmet,
         price |-> R(r.price)]

\* the sums of lines 117-129 over the rows so far
NoGreedySums == [cost |-> R(0), emissions |-> R(0), unmet |-> R(0)]

\* mutant: the factors applied to the uses without the price
greedy_row_cost_unpriced(row) ==
    RatAdd(RatAdd(RatMul(row.solar_use, Rat(cost_solar10, 10)),
                  RatMul(row.wind_use, Rat(cost_wind10, 10))),
           RatMul(row.hydro_use, Rat(cost_hydro10, 10)))

\* lines 117-121
greedy_row_cost(row) ==
    RatAdd(RatAdd(RatMul(RatMul(row.solar_use, row.price), Rat(cost_solar10, 10)),
                  RatMul(RatMul(row.wind_use, row.price), Rat(cost_wind10, 10))),
           RatMul(RatMul(row.hydro_use, row.price), Rat(cost_hydro10, 10)))

\* mutant: the time-varying intensity of the row's hour of day
greedy_row_emissions_varying(row) ==
    RatAdd(RatAdd(RatMul(row.solar_use, Rat(get_carbon_intensity20(row.hour_of_day, "solar"), 20)),
                  RatMul(row.wind_use, Rat(get_carbon_intensity20(row.hour_of_day, "wind"), 20))),
           RatMul(row.hydro_use, Rat(get_carbon_intensity20(row.hour_of_day, "hydro"), 20)))

\* lines 123-127
greedy_row_emissions(row) ==
    RatAdd(RatAdd(RatMul(row.solar_use, R(emission_factors["solar"])),
                  RatMul(row.wind_use, R(emission_factors["wind"]))),
           RatMul(row.hydro_use, R(emission_factors["hydro"])))

greedy_add_row(sums, row) ==
    [cost |-> RatAdd(sums.cost, greedy_row_cost(row)),
     emissions |-> RatAdd(sums.emissions, greedy_row_emissions(row)),
     unmet |-> RatAdd(sums.unmet, row.unmet_demand)]

\* hours whose sources offer more than the demand needs
AmpleRecords ==
    { HourRecord(d, av, 1) :
        d \in 0..MaxDemand,
        av \in [solar_available : 0..GreedyMaxAvail, wind_available : 0..GreedyMaxAvail,
                hydro_available : 0..GreedyMaxAvail] }

GreedyCalls ==
    { Call("greedy_energy_mix", n, pat, i10, <<2, 0>>, FALSE) :
        n \in 1..GreedyHours, pat \in Patterns \cup { <<r>> : r \in AmpleRecords },
        i10 \in {0, 25, 46, 50} }

InitGreedy ==
    /\ call \in GreedyCalls
    /\ pc = "start"
    /\ prob = [end_band |-> FALSE]
    /\ cost_to_go = <<>>
    /\ results = [status |-> "none"]
    /\ battery_level = NoLevel

\* lines 18-26
greedy_energy_mix_start ==
    /\ pc = "start"
    /\ call.entry = "greedy_energy_mix"
    /\ results' = [status |-> "Greedy", n |-> 0, level_before |-> NoLevel,
                   hour_result |-> NoRow, sums |-> NoGreedySums]
    /\ battery_level' = Rat(call.battery_initial10, 10)
    /\ pc' = "loop"
    /\ UNCHANGED <<call, prob, cost_to_go>>

\* lines 28-102: one hour
greedy_energy_mix_hour ==
    /\ pc = "loop"
    /\ results.n < call.hours
    /\ LET row == greedy_step(call, results.n, battery_level)
       IN  /\ results' = [results EXCEPT !.n = results.n + 1,
                                         !.level_before = battery_level,
                                         !.hour_result = row,
                                         !.sums = greedy_add_row(results.sums, row)]
           /\ battery_level' = row.battery_level
    /\ UNCHANGED <<call, pc, prob, cost_to_go>>

\* lines 104-131
greedy_energy_mix_totals ==
    /\ pc = "loop"
    /\ results.n = call.hours
    /\ results' = [status |-> results.status, n |-> results.n,
                   level_before |-> results.level_before,
                   hour_result |-> results.hour_result, sums |-> results.sums,
                   total_cost |-> results.sums.cost,
                   total_emissions |-> results.sums.emissions,
                   total_unmet |-> results.sums.unmet]
    /\ pc' = "done"
    /\ UNCHANGED <<call, prob, cost_to_go, battery_level>>

NextGreedy ==
    \/ greedy_energy_mix_start
    \/ greedy_energy_mix_hour
    \/ greedy_energy_mix_totals

SpecGreedy == InitGreedy /\ [][NextGreedy]_vars

-----------------------------------------------------------------------------
(* The two dispatchers as whole calls, as run_price_sensitivity makes them *)

\* prob.solve carried through: the solver's tables of the hours t..hours
RECURSIVE solve_from(_, _, _)
solve_from(c, p, t) ==
    IF t = c.hours
    THEN (t :> terminal_table(c, p))
    ELSE CHOOSE tables \in
            { ((t :> ([l \in Levels10(c, t) |-> Bellman(c, t, l, later[t + 1])] @@ <<>>))
                  @@ later) @@ <<>> :
                later \in {solve_from(c, p, t + 1)} } : TRUE

\* the column sums of the plans the solved variables can hold, hours t.. on
RECURSIVE plan_sums(_, _, _, _, _)
plan_sums(c, table, t, l, sums) ==
    IF t = c.hours
    THEN {sums}
    ELSE UNION { UNION { plan_sums(c, table, t + 1, l1, sums1) :
                           l1 \in {next_level10(l, a)},
                           sums1 \in {add_row(sums, hour_result(c, t, l, a))} } :
                   a \in OptimalAllocations(c, t, l, table) }

\* optimize_energy_mix(forecast_df, ...): the results it can return, the
\* totals as numbers (total_cost in MWh x price, total_emissions in kg)
optimize_energy_mix(c) ==
    UNION { IF table[0][c.battery_initial10] = {}
            THEN { [status |-> "Infeasible", error |-> TRUE] }
            ELSE { [status |-> "Optimal", error |-> FALSE,
                    total_cost |-> Rat(s.cost10, 10),
                    total_emissions |-> Rat(total_emissions20(c, s), 20),
                    total_unmet |-> R(s.unmet)] :
                     s \in plan_sums(c, table, 0, c.battery_initial10, NoSums) } :
              table \in {solve_from(c, [end_band |-> FALSE], 0)} }

\* results['hours'] of greedy_energy_mix: the rows of hours t.. from `level`
RECURSIVE greedy_hours(_, _, _)
greedy_hours(c, t, level) ==
    IF t = c.hours
    THEN <<>>
    ELSE CHOOSE hours \in
            { <<row>> \o greedy_hours(c, t + 1, row.battery_level) :
                row \in {greedy_step(c, t, level)} } : TRUE

\* the sums of lines 117-129 over the rows i.. of results_df
RECURSIVE greedy_sums(_, _)
greedy_sums(hours, i) ==
    IF i > Len(hours)
    THEN NoGreedySums
    ELSE greedy_add_row(greedy_sums(hours, i + 1), hours[i])

\* greedy_energy_mix(forecast_df, battery_capacity, battery_initial)
greedy_energy_mix(c) ==
    CHOOSE result \in
        UNION { { [status |-> "Greedy", hours |-> hours,
                   total_cost |-> sums.cost,
                   total_emissions |-> sums.emissions,
                   total_unmet |-> sums.unmet] :
                    sums \in {greedy_sums(hours, 1)} } :
                  hours \in {greedy_hours(c, 0, Rat(c.battery_initial10, 10))} } : TRUE

-----------------------------------------------------------------------------
(* sensitivity_analysis.py *)

\* numpy float64 results that are not numbers: x/0 and 0/0 do not raise, they
\* give +-inf and nan.  They are held as num/0: 0/0 nan, 1/0 inf, -1/0 -inf.
NaN == [num |-> 0, den |-> 0]

Sign(n) == IF n > 0 THEN 1 ELSE IF n < 0 THEN 0 - 1 ELSE 0

Inf(sign) == [num |-> sign, den |-> 0]

IsFinite(x) == x.den # 0

\* x / y in float64
float_div(x, y) ==
    IF x = NaN \/ y = NaN THEN NaN
    ELSE IF ~IsFinite(x)
         THEN IF ~IsFinite(y) THEN NaN ELSE IF y.num < 0 THEN Inf(0 - x.num) ELSE x
    ELSE IF ~IsFinite(y) THEN R(0)
    ELSE IF y.num = 0 THEN Inf(Sign(x.num))
    ELSE IF y.num > 0 THEN Rat(x.num * y.den, x.den * y.num)
    ELSE Rat(0 - x.num * y.den, x.den * (0 - y.num))

\* x + y in float64
float_add(x, y) ==
    IF IsFinite(x) /\ IsFinite(y) THEN RatAdd(x, y)
    ELSE IF IsFinite(x) THEN y
    ELSE IF IsFinite(y) THEN x
    ELSE IF x = y THEN x ELSE NaN

\* mutant: the price scaled by 2 - multiplier
scaled_price_reversed(price, multiplier) ==
    RatMul(R(price), RatSub(R(2), multiplier)).num

\* scenario_df['price'] * multiplier (line 37), for the series of the model,
\* whose scaled prices are whole numbers
scaled_price(price, multiplier) == RatMul(R(price), multiplier).num

\* mutant: the demand scaled along with the price
scenario_df_scales_demand(forecast_df, multiplier) ==
    [i \in 1..Len(forecast_df) |->
        [forecast_df[i] EXCEPT !.price = scaled_price(forecast_df[i].price, multiplier),
                               !.demand = 2 * forecast_df[i].demand]]

\* scenario_df (lines 36-37): a copy of forecast_df with the price scaled
scenario_df(forecast_df, multiplier) ==
    [i \in 1..Len(forecast_df) |->
        [forecast_df[i] EXCEPT !.price = scaled_price(forecast_df[i].price, multiplier)]]

\* the arguments run_price_sensitivity passes on to the optimizer (lines 40-47)
\* and to greedy_energy_mix (lines 50-54)
scenario_call(c, entry, df) ==
    [entry |-> entry, hours |-> c.hours, h0 |-> c.h0, pattern |-> df,
     battery_capacity |-> c.battery_capacity, battery_initial10 |-> c.battery_initial10,
     cost_weight2 |-> c.cost_weight2, emission_weight2 |-> c.emission_weight2,
     use_time_varying_carbon |-> c.use_time_varying_carbon, grid |-> c.grid]

\* the entry appended to results['optimized'] / results['greedy'] (lines 63-75)
sensitivity_entry(multiplier, result) ==
    [multiplier |-> multiplier,
     total_cost |-> result.total_cost,
     total_emissions |-> result.total_emissions,
     total_unmet |-> result.total_unmet]

\* calculate_elasticity, lines 98-107: the elasticities of the entries i.. of
\* data against the entry before each, in the recorded order
RECURSIVE elasticities(_, _)
elasticities(data, i) ==
    IF i > Len(data)
    THEN <<>>
    ELSE LET prev == data[i - 1]
             curr == data[i]
             price_change == float_div(RatSub(curr.multiplier, prev.multiplier), prev.multiplier)
             cost_change == float_div(RatSub(curr.total_cost, prev.total_cost), prev.total_cost)
         IN  (IF price_change # R(0) THEN <<float_div(cost_change, price_change)>> ELSE <<>>)
                 \o elasticities(data, i + 1)

RECURSIVE float_sum(_, _)
float_sum(seq, i) ==
    IF i > Len(seq) THEN R(0) ELSE float_add(seq[i], float_sum(seq, i + 1))

\* np.mean
np_mean(seq) == float_div(float_sum(seq, 1), R(Len(seq)))

\* calculate_elasticity(sensitivity_results, strategy), lines 92-109
calculate_elasticity(sensitivity_results, strategy) ==
    LET data == sensitivity_results[strategy]
    IN  IF Len(data) < 2
        THEN R(0)
        ELSE LET e == elasticities(data, 2)
             IN  IF e # <<>> THEN np_mean(e) ELSE R(0)

\* the price multipliers of the sweeps: 0.5, 1.0, 1.5
Multipliers == {Rat(1, 2), R(1), Rat(3, 2)}

\* price_scenarios = None: the default list of lines 25-26
default_price_scenarios == <<Rat(1, 2), Rat(3, 4), R(1), Rat(5, 4), Rat(3, 2)>>

\* the lists passed as price_scenarios: distinct multipliers, in any order
PriceScenarios ==
    { ps \in UNION { [1..k -> Multipliers] : k \in 0..Cardinality(Multipliers) } :
        \A i \in 1..Len(ps) : \A j \in 1..Len(ps) : ps[i] = ps[j] => i = j }

\* base series of the sweeps: prices that every multiplier scales to a whole
\* number, solar and hydro to choose from
SweepRecords ==
    { r \in { HourRecord(d, av, 8) : d \in 0..MaxDemand, av \in Availabilities } :
        r.wind_available = 0 }

DearWhole(r) == [r EXCEPT !.price = 4 * (HighPrice \div 4)]

\* series whose costs stay small: the elasticities are computed exactly
CheapSeries ==
    { [hours |-> 1, pattern |-> <<r>>] : r \in SweepRecords }
    \cup { [hours |-> 2, pattern |-> <<r, Dark(r)>>] : r \in SweepRecords }

SweepSeries ==
    CheapSeries \cup { [hours |-> 2, pattern |-> <<r, DearWhole(r)>>] : r \in SweepRecords }

\* run_price_sensitivity(forecast_df, battery_capacity, battery_initial,
\* cost_weight, emission_weight, price_scenarios, use_time_varying_carbon);
\* an initial charge above the capacity is one the optimizer cannot plan for
SensitivityCall(s, i10, w, tv, none, ps) ==
    [entry |-> "run_price_sensitivity", hours |-> s.hours, h0 |-> 5,
     pattern |-> s.pattern, battery_capacity |-> 5, battery_initial10 |-> i10,
     cost_weight2 |-> w[1], emission_weight2 |-> w[2],
     use_time_varying_carbon |-> tv, grid |-> 1,
     price_scenarios_is_none |-> none,
     price_scenarios |-> IF none THEN <<>> ELSE ps]

SensitivityCalls ==
    { SensitivityCall(s, i10, w, tv, none, ps) :
        s \in SweepSeries, i10 \in {0, 25, 60}, w \in Weights, tv \in BOOLEAN,
        none \in BOOLEAN, ps \in PriceScenarios }

ElasticityCalls ==
    { SensitivityCall(s, i10, w, tv, none, ps) :
        s \in CheapSeries, i10 \in {0, 25, 60}, w \in Weights, tv \in BOOLEAN,
        none \in BOOLEAN, ps \in PriceScenarios }

InitSensitivity ==
    /\ call \in SensitivityCalls
    /\ pc = "start"
    /\ prob = [end_band |-> FALSE]
    /\ cost_to_go = <<>>
    /\ results = [status |-> "none"]
    /\ battery_level = NoLevel

\* lines 25-32
run_price_sensitivity_start ==
    /\ pc = "start"
    /\ call.entry = "run_price_sensitivity"
    /\ results' = [price_scenarios |-> IF call.price_scenarios_is_none
                                        THEN default_price_scenarios
                                        ELSE call.price_scenarios,
                   n |-> 0, scenario_df |-> <<>>, opt_status |-> <<>>,
                   scenarios |-> <<>>, optimized |-> <<>>, greedy |-> <<>>]
    /\ pc' = "sweep"
    /\ UNCHANGED <<call, prob, cost_to_go, battery_level>>

\* mutant: the loop left at the first failed optimizer run
run_price_sensitivity_scenario_break ==
    /\ pc = "sweep"
    /\ results.n < Len(results.price_scenarios)
    /\ \E multiplier \in {results.price_scenarios[results.n + 1]} :
       \E df \in {scenario_df(call.pattern, multiplier)} :
       \E opt_result \in optimize_energy_mix(scenario_call(call, "optimize_energy_mix", df)) :
       \E greedy_result \in {greedy_energy_mix(scenario_call(call, "greedy_energy_mix", df))} :
             results' =
                [results EXCEPT
                    !.n = IF opt_result.error THEN Len(results.price_scenarios) ELSE @ + 1,
                    !.scenario_df = df,
                    !.opt_status = Append(@, opt_result.status),
                    !.scenarios = Append(@, [multiplier |-> multiplier]),
                    !.optimized = IF ~opt_result.error
                                  THEN Append(@, sensitivity_entry(multiplier, opt_result))
                                  ELSE @,
                    !.greedy = Append(@, sensitivity_entry(multiplier, greedy_result))]
    /\ UNCHANGED <<call, pc, prob, cost_to_go, battery_level>>

\* lines 34-75: one multiplier, both dispatchers run on the scenario series
run_price_sensitivity_scenario ==
    /\ pc = "sweep"
    /\ results.n < Len(results.price_scenarios)
    /\ \E multiplier \in {results.price_scenarios[results.n + 1]} :
       \E df \in {scenario_df(call.pattern, multiplier)} :
       \E opt_result \in optimize_energy_mix(scenario_call(call, "optimize_energy_mix", df)) :
       \E greedy_result \in {greedy_energy_mix(scenario_call(call, "greedy_energy_mix", df))} :
             results' =
                [results EXCEPT
                    !.n = @ + 1,
                    !.scenario_df = df,
                    !.opt_status = Append(@, opt_result.status),
                    !.scenarios = Append(@, [multiplier |-> multiplier]),
                    !.optimized = IF ~opt_result.error
                                  THEN Append(@, sensitivity_entry(multiplier, opt_result))
                                  ELSE @,
                    !.greedy = Append(@, sensitivity_entry(multiplier, greedy_result))]
    /\ UNCHANGED <<call, pc, prob, cost_to_go, battery_level>>

\* line 77
run_price_sensitivity_return ==
    /\ pc = "sweep"
    /\ results.n = Len(results.price_scenarios)
    /\ pc' = "returned"
    /\ UNCHANGED <<call, prob, cost_to_go, results, battery_level>>

\* calculate_elasticity on the returned report, for either strategy
calculate_elasticity_call ==
    /\ pc = "returned"
    /\ \E strategy \in {"optimized", "greedy"} :
         results' = [strategy |-> strategy,
                     elasticity |-> calculate_elasticity(results, strategy)] @@ results
    /\ pc' = "done"
    /\ UNCHANGED <<call, prob, cost_to_go, battery_level>>

NextSensitivity ==
    \/ run_price_sensitivity_start
    \/ run_price_sensitivity_scenario
    \/ run_price_sensitivity_return

SpecSensitivity == InitSensitivity /\ [][NextSensitivity]_vars

\* a caller that goes on to compute the elasticity of the report
InitElasticity ==
    /\ call \in ElasticityCalls
    /\ pc = "start"
    /\ prob = [end_band |-> FALSE]
    /\ cost_to_go = <<>>
    /\ results = [status |-> "none"]
    /\ battery_level = NoLevel

NextElasticity ==
    \/ run_price_sensitivity_start
    \/ run_price_sensitivity_scenario
    \/ run_price_sensitivity_return
    \/ calculate_elasticity_call

SpecElasticity == InitElasticity /\ [][NextElasticity]_vars

-----------------------------------------------------------------------------
(* The carbon-intensity lookup as called *)

\* get_carbon_intensity(hour, source) for an hour of the first days and a
\* source, known or not; get_all_carbon_intensities(hours)
CarbonCalls ==
    { [entry |-> "get_carbon_intensity", hour |-> h, source |-> s] :
        h \in 0..MaxHour, s \in Sources \cup {"coal"} }
    \cup { [entry |-> "get_all_carbon_intensities", hours |-> n] : n \in 0..MaxHour }

InitCarbon ==
    /\ call \in CarbonCalls
    /\ pc = "start"
    /\ prob = [end_band |-> FALSE]
    /\ cost_to_go = <<>>
    /\ results = [status |-> "none"]
    /\ battery_level = NoLevel

\* get_carbon_intensity, lines 21-46
get_carbon_intensity_call ==
    /\ pc = "start"
    /\ call.entry = "get_carbon_intensity"
    /\ results' = [value20 |-> get_carbon_intensity20(call.hour, call.source)]
    /\ pc' = "done"
    /\ UNCHANGED <<call, prob, cost_to_go, battery_level>>

\* get_all_carbon_intensities, line 60
get_all_carbon_intensities_start ==
    /\ pc = "start"
    /\ call.entry = "get_all_carbon_intensities"
    /\ results' = [n |-> 0, data |-> <<>>]
    /\ pc' = "rows"
    /\ UNCHANGED <<call, prob, cost_to_go, battery_level>>

\* lines 61-67: one hour of range(hours)
get_all_carbon_intensities_row ==
    /\ pc = "rows"
    /\ results.n < call.hours
    /\ results' = [n |-> results.n + 1, data |-> Append(results.data, intensity_row(results.n))]
    /\ UNCHANGED <<call, pc, prob, cost_to_go, battery_level>>

\* line 69
get_all_carbon_intensities_return ==
    /\ pc = "rows"
    /\ results.n = call.hours
    /\ pc' = "done"
    /\ UNCHANGED <<call, prob, cost_to_go, results, battery_level>>

NextCarbon ==
    \/ get_carbon_intensity_call
    \/ get_all_carbon_intensities_start
    \/ get_all_carbon_intensities_row
    \/ get_all_carbon_intensities_return

SpecCarbon == InitCarbon /\ [][NextCarbon]_vars

-----------------------------------------------------------------------------
(* What the constraints admit, apart from the objective *)

\* the levels at hour t from which hours t.. can be planned with no unmet demand
RECURSIVE NoUnmetFrom(_, _, _)
NoUnmetFrom(c, p, t) ==
    IF t = c.hours
    THEN [l \in Levels10(c, t) |-> terminal_ok(c, p, l)] @@ <<>>
    ELSE LET later == NoUnmetFrom(c, p, t + 1)
         IN  [l \in Levels10(c, t) |->
                 \E a \in HourAllocations(c, t, l) :
                     a.unmet_demand = 0 /\ later[next_level10(l, a)]] @@ <<>>

\* the constraints admit an allocation with unmet_demand[t] = 0 in every hour
ZeroUnmetAdmitted == NoUnmetFrom(call, prob, 0)[call.battery_initial10]

Done == pc = "done"

Optimal == Done /\ results.status = "Optimal"

\* the objective coefficient of one MWh of a source in hour t, in 1/400
UnitUse(source) ==
    [solar_use |-> IF source = "solar" THEN 1 ELSE 0,
     wind_use |-> IF source = "wind" THEN 1 ELSE 0,
     hydro_use |-> IF source = "hydro" THEN 1 ELSE 0,
     battery_charge |-> 0, battery_discharge |-> 0, unmet_demand |-> 0]

\* every source coefficient of every hour is below 0.9 * 10000: a MWh served
\* through the battery at efficiency 0.9 still costs less than a MWh unmet
PenaltyDominates ==
    \A t \in 0..(call.hours - 1) : \A source \in Sources :
        10 * hour_objective400(call, t, UnitUse(source)) < 9 * 10000 * 400

\* a row of an Optimal optimizer plan is in results.hour_result
InPlan == pc \in {"extract", "done"} /\ results.status = "Optimal" /\ results.n > 0

PlanRow == results.hour_result

PlanHour == Row(call, PlanRow.hour)

-----------------------------------------------------------------------------
(* C1: the single-hour scenario *)

\* C1 as stated: for the scenario (demand=100, solar_available=150, price=50,
\* capacity=500, initial=250, cost_weight=1, emission_weight=0) the optimizer's
\* plan has solar_use=100, wind_use=0, hydro_use=0, unmet_demand=0 and
\* total_cost=2500.0.
C1_ScenarioServedBySolar ==
    Done /\ call = Scenario =>
        /\ results.status = "Optimal"
        /\ PlanRow.solar_use = 100
        /\ PlanRow.wind_use = 0
        /\ PlanRow.hydro_use = 0
        /\ PlanRow.unmet_demand = 0
        /\ results.total_cost10 = 25000

\* C1 amended: for the scenario the plan serves the demand from the battery,
\* which costs nothing in the objective: battery_discharge=100, solar_use=0,
\* wind_use=0, hydro_use=0, battery_charge=0, unmet_demand=0, total_cost=0.
C1_ScenarioServedByBattery ==
    Done /\ call = Scenario =>
        /\ results.status = "Optimal"
        /\ PlanRow.solar_use = 0
        /\ PlanRow.wind_use = 0
        /\ PlanRow.hydro_use = 0
        /\ PlanRow.battery_discharge = 100
        /\ PlanRow.battery_charge = 0
        /\ PlanRow.battery_level10 = 1500
        /\ PlanRow.unmet_demand = 0
        /\ results.total_cost10 = 0

C1_Witness == Optimal /\ call = Scenario /\ results.n = 1

-----------------------------------------------------------------------------
(* C2: total_emissions follows the accounting mode of the call *)

\* C2: in every Optimal plan of either entry point, total_emissions is the sum
\* over the rows of use x time-varying intensity at the row's hour of day when
\* use_time_varying_carbon is true, and of use x fixed factor when it is false.
C2_EmissionsFollowMode ==
    Optimal =>
        results.total_emissions20 =
            IF call.use_time_varying_carbon
            THEN results.sums.emissions_varying20
            ELSE 20 * results.sums.emissions_fixed

-----------------------------------------------------------------------------
(* C3, C4: the end band and the horizon *)

\* C3: every Optimal plan for more than 24 hours ends with
\* 0.2*capacity <= battery_level[H] <= 0.8*capacity, from either entry point.
C3_EndBandBeyondOneDay ==
    Optimal /\ call.hours > 24 =>
        /\ 2 * call.battery_capacity <= PlanRow.battery_level10
        /\ PlanRow.battery_level10 <= 8 * call.battery_capacity

\* C4: for a series of exactly 24 rows the problem holds no end band: every
\* level in [0, capacity] satisfies its constraints on battery_level[24], for
\* optimize_energy_mix and for optimize_multiday_energy_mix.
C4_NoEndBandForOneDay ==
    pc # "start" /\ call.hours = 24 =>
        /\ ~prob.end_band
        /\ \A l \in Levels10(call, call.hours) : cost_to_go[call.hours][l] # {}

-----------------------------------------------------------------------------
(* C5: the slack keeps the problem feasible *)

\* in every hour the demand exceeds the available supply plus what the battery
\* can discharge in an hour
ShortEveryHour ==
    \A t \in 0..(call.hours - 1) :
        Row(call, t).demand >
            Row(call, t).solar_available + Row(call, t).wind_available
                + Row(call, t).hydro_available + max_rate(call)

-----------------------------------------------------------------------------
(* C6: the penalty and unmet demand *)

\* C6 as stated: whenever the constraints admit an allocation with no unmet
\* demand, the returned plan has total_unmet = 0, for every weight and price.
C6_NoUnmetWhenAvoidable ==
    Optimal => (results.total_unmet = 0 \/ ~ZeroUnmetAdmitted)

\* C6 amended: whenever the constraints admit an allocation with no unmet
\* demand, and the weights are non-negative and every hour's objective
\* coefficient of a MWh of any source is below 9000, the returned plan has
\* total_unmet = 0.
C6_NoUnmetWhenPenaltyDominates ==
    Optimal /\ PenaltyDominates
        /\ call.cost_weight2 >= 0 /\ call.emission_weight2 >= 0
    => (results.total_unmet = 0 \/ ~ZeroUnmetAdmitted)

\* a plan that pays for generation (cost and emissions in the objective)
\* rather than leave demand unmet
C6_Witness ==
    /\ Optimal /\ PenaltyDominates
    /\ call.cost_weight2 > 0 /\ call.emission_weight2 > 0
    /\ results.sums.cost10 > 0
    /\ results.total_unmet = 0
    /\ ZeroUnmetAdmitted

-----------------------------------------------------------------------------
(* C7, C8, C9: every row of an Optimal plan satisfies the constraints *)

\* C7: in every Optimal plan the battery level is within [0, capacity] before
\* and after every hour, the level before hour 0 is the initial charge, and
\* the level reported in row t is the level before it + 0.9*battery_charge[t]
\* - battery_discharge[t].
C7_BatteryLevels ==
    InPlan =>
        /\ 0 <= results.level_before10
        /\ results.level_before10 <= 10 * call.battery_capacity
        /\ 0 <= PlanRow.battery_level10
        /\ PlanRow.battery_level10 <= 10 * call.battery_capacity
        /\ PlanRow.hour = 0 => results.level_before10 = call.battery_initial10
        /\ PlanRow.battery_level10 =
              results.level_before10 + 9 * PlanRow.battery_charge
                  - 10 * PlanRow.battery_discharge

\* a row that charges and one that discharges, after the first hour
C7_Witness ==
    /\ InPlan /\ PlanRow.hour > 0
    /\ PlanRow.battery_charge > 0
    /\ PlanRow.battery_level10 # results.level_before10
    /\ results.level_before10 # call.battery_initial10

\* C8: in every row of every Optimal plan each source's use is at most its
\* availability, battery_charge <= max_rate, battery_discharge <= max_rate and
\* battery_charge + battery_discharge <= max_rate = 0.2 * capacity.
C8_CapsAndRates ==
    InPlan =>
        /\ PlanRow.solar_use <= PlanHour.solar_available
        /\ PlanRow.wind_use <= PlanHour.wind_available
        /\ PlanRow.hydro_use <= PlanHour.hydro_available
        /\ 5 * PlanRow.battery_charge <= call.battery_capacity
        /\ 5 * PlanRow.battery_discharge <= call.battery_capacity
        /\ 5 * (PlanRow.battery_charge + PlanRow.battery_discharge) <= call.battery_capacity

\* a row at its caps: all of the solar available used, charging at max_rate
C8_Witness ==
    /\ InPlan
    /\ PlanHour.solar_available > 0
    /\ PlanRow.solar_use = PlanHour.solar_available
    /\ 5 * PlanRow.battery_charge = call.battery_capacity

\* C9: in every row of every Optimal plan, solar_use + wind_use + hydro_use
\* + battery_discharge - battery_charge + unmet_demand = demand.
C9_DemandBalance ==
    InPlan =>
        PlanRow.solar_use + PlanRow.wind_use + PlanRow.hydro_use
            + PlanRow.battery_discharge - PlanRow.battery_charge + PlanRow.unmet_demand
        = PlanHour.demand

\* rows where the battery terms and the slack take part in the balance
C9_Witness ==
    /\ InPlan
    /\ PlanRow.battery_charge > 0
    /\ PlanRow.unmet_demand > 0
    /\ PlanRow.solar_use > 0

-----------------------------------------------------------------------------
(* C10: the greedy plan stays within caps and battery bounds *)

InGreedyPlan == pc \in {"loop", "done"} /\ results.status = "Greedy" /\ results.n > 0

\* C10: in every row of a greedy plan each source's reported use is at most
\* its availability, battery_charge <= max_rate, battery_discharge <= max_rate
\* and the battery level after the hour is in [0, capacity].
C10_GreedyWithinCaps ==
    InGreedyPlan =>
        /\ RatLe(PlanRow.solar_use, R(PlanHour.solar_available))
        /\ RatLe(PlanRow.wind_use, R(PlanHour.wind_available))
        /\ RatLe(PlanRow.hydro_use, R(PlanHour.hydro_available))
        /\ RatLe(PlanRow.battery_charge, Rat(call.battery_capacity, 5))
        /\ RatLe(PlanRow.battery_discharge, Rat(call.battery_capacity, 5))
        /\ RatLe(R(0), PlanRow.battery_level)
        /\ RatLe(PlanRow.battery_level, R(call.battery_capacity))

\* a row whose charge is cut by the room left in the battery and attributed
\* to two sources
C10_Witness ==
    /\ InGreedyPlan
    /\ PlanRow.battery_level = R(call.battery_capacity)
    /\ RatLt(R(0), PlanRow.battery_charge)
    /\ RatLt(PlanRow.battery_charge, Rat(call.battery_capacity, 5))
    /\ RatLt(PlanRow.battery_charge, RatAdd(R(PlanHour.solar_available), R(PlanHour.wind_available)))
    /\ RatLt(R(0), PlanRow.solar_use)
    /\ RatLt(R(0), PlanRow.wind_use)

-----------------------------------------------------------------------------
(* C11: greedy leaves demand unmet only at the ceilings *)

\* C11: in a greedy plan, unmet_demand[t] > 0 only when in hour t solar, wind
\* and hydro are each used up to their full availability and
\* battery_discharge[t] equals min(max_rate, battery level at the start of the
\* hour).
C11_GreedyUnmetOnlyAtCeilings ==
    InGreedyPlan /\ RatLt(R(0), PlanRow.unmet_demand) =>
        /\ PlanRow.solar_use = R(PlanHour.solar_available)
        /\ PlanRow.wind_use = R(PlanHour.wind_available)
        /\ PlanRow.hydro_use = R(PlanHour.hydro_available)
        /\ PlanRow.battery_discharge =
              RatMin(Rat(call.battery_capacity, 5), results.level_before)

\* an hour with unmet demand after generation and a discharge cut by the
\* level left in the battery
C11_Witness ==
    /\ InGreedyPlan
    /\ RatLt(R(0), PlanRow.unmet_demand)
    /\ PlanHour.solar_available > 0
    /\ RatLt(R(0), PlanRow.battery_discharge)
    /\ RatLt(PlanRow.battery_discharge, Rat(call.battery_capacity, 5))

-----------------------------------------------------------------------------
(* C12: the greedy emissions ignore the accounting mode *)

InSweep == pc \in {"sweep", "returned", "done"} /\ call.entry = "run_price_sensitivity"

\* the series and the arguments of the scenario of the i-th multiplier
ScenarioOf(i) == scenario_df(call.pattern, results.scenarios[i].multiplier)

GreedyPlanOf(i, tv) ==
    greedy_energy_mix([scenario_call(call, "greedy_energy_mix", ScenarioOf(i))
                          EXCEPT !.use_time_varying_carbon = tv])

\* 45*solar_use + 12*wind_use + 24*hydro_use summed over the rows i.. of a plan
RECURSIVE FixedFactorEmissions(_, _)
FixedFactorEmissions(hours, i) ==
    IF i > Len(hours)
    THEN R(0)
    ELSE RatAdd(RatAdd(RatAdd(RatMul(R(45), hours[i].solar_use),
                              RatMul(R(12), hours[i].wind_use)),
                       RatMul(R(24), hours[i].hydro_use)),
                FixedFactorEmissions(hours, i + 1))

\* C12: the greedy total_emissions recorded by run_price_sensitivity is the
\* fixed factors (solar 45, wind 12, hydro 24) applied to the uses reported by
\* the greedy plan of the scenario, and it is the same whether the sweep was
\* called with use_time_varying_carbon true or false.
C12_GreedyEmissionsFixed ==
    InSweep =>
        \A i \in 1..Len(results.greedy) : \A tv \in BOOLEAN :
            results.greedy[i].total_emissions
                = FixedFactorEmissions(GreedyPlanOf(i, tv).hours, 1)

\* a sweep in time-varying mode that recorded greedy emissions for two
\* multipliers
C12_Witness ==
    /\ InSweep
    /\ call.use_time_varying_carbon
    /\ Len(results.greedy) >= 2
    /\ RatLt(R(0), results.greedy[2].total_emissions)

-----------------------------------------------------------------------------
(* C13: the totals are sums over the reported rows *)

\* either dispatcher, called on its own
InitPlans == Init \/ InitGreedy

NextPlans ==
    \/ optimize_energy_mix_build
    \/ optimize_multiday_energy_mix_build
    \/ solve_hour
    \/ solve_failed
    \/ solve_optimal
    \/ extract_hour
    \/ totals
    \/ greedy_energy_mix_start
    \/ greedy_energy_mix_hour
    \/ greedy_energy_mix_totals

SpecPlans == InitPlans /\ [][NextPlans]_vars

\* price * (0.5*solar_use + 0.6*wind_use + 0.7*hydro_use) of a reported row,
\* in tenths for an optimizer row and as a rational for a greedy row
RowCost10(row) ==
    row.price * (5 * row.solar_use + 6 * row.wind_use + 7 * row.hydro_use)

GreedyRowCost(row) ==
    RatMul(row.price,
           RatAdd(RatAdd(RatMul(Rat(1, 2), row.solar_use), RatMul(Rat(3, 5), row.wind_use)),
                  RatMul(Rat(7, 10), row.hydro_use)))

\* a step that starts the rows, appends a row, or computes the totals
StartsRows == pc' \in {"extract", "loop"} /\ pc \notin {"extract", "loop"}

AppendsRow == pc' = pc /\ pc \in {"extract", "loop"} /\ results'.n = results.n + 1

ComputesTotals == pc' = "done" /\ pc \in {"extract", "loop"}

\* C13: for every plan with per-hour data (an Optimal optimizer plan or a
\* greedy plan) total_cost is the sum over the reported rows of
\* price * (0.5*solar_use + 0.6*wind_use + 0.7*hydro_use), whatever the
\* weights, and total_unmet is the sum of the rows' unmet_demand: the sums are
\* zero before the first row, every row appended adds its own term, and the
\* totals returned are the sums over all the rows.
C13_TotalsAreRowSums ==
    [][ /\ StartsRows /\ pc' = "extract" =>
              results'.sums.cost10 = 0 /\ results'.sums.unmet = 0
        /\ StartsRows /\ pc' = "loop" =>
              results'.sums.cost = R(0) /\ results'.sums.unmet = R(0)
        /\ AppendsRow /\ pc = "extract" =>
              /\ results'.sums.cost10 = results.sums.cost10 + RowCost10(results'.hour_result)
              /\ results'.sums.unmet = results.sums.unmet + results'.hour_result.unmet_demand
        /\ AppendsRow /\ pc = "loop" =>
              /\ results'.sums.cost = RatAdd(results.sums.cost, GreedyRowCost(results'.hour_result))
              /\ results'.sums.unmet = RatAdd(results.sums.unmet, results'.hour_result.unmet_demand)
        /\ ComputesTotals /\ pc = "extract" =>
              /\ results'.n = call.hours
              /\ results'.total_cost10 = results.sums.cost10
              /\ results'.total_unmet = results.sums.unmet
        /\ ComputesTotals /\ pc = "loop" =>
              /\ results'.n = call.hours
              /\ results'.total_cost = results.sums.cost
              /\ results'.total_unmet = results.sums.unmet
      ]_vars

\* a two-hour Optimal plan found with cost_weight = 0 that has a cost and
\* unmet demand
C13_Witness ==
    /\ Optimal
    /\ call.cost_weight2 = 0
    /\ results.n = 2
    /\ results.total_cost10 > 0
    /\ results.total_unmet > 0

-----------------------------------------------------------------------------
(* C14: the optimized total_cost along the multipliers *)

\* the recorded optimized total_cost does not decrease from a multiplier to
\* a larger one
OptimizedCostMonotone ==
    \A i \in 1..Len(results.optimized) : \A j \in 1..Len(results.optimized) :
        RatLt(results.optimized[i].multiplier, results.optimized[j].multiplier)
            => RatLe(results.optimized[i].total_cost, results.optimized[j].total_cost)

HalfOneOneAndAHalf == <<Rat(1, 2), R(1), Rat(3, 2)>>

\* in the scenario of the i-th multiplier every source coefficient of every
\* hour is below 0.9 * 10000
PenaltyDominatesIn(i) ==
    LET c == scenario_call(call, "optimize_energy_mix", ScenarioOf(i))
    IN  \A t \in 0..(c.hours - 1) : \A source \in Sources :
            10 * hour_objective400(c, t, UnitUse(source)) < 9 * 10000 * 400

-----------------------------------------------------------------------------
(* C15: a failed optimizer run is local to its scenario *)

\* the multipliers, among the first k evaluated, whose optimizer run was Optimal
RECURSIVE OptimalMultipliers(_)
OptimalMultipliers(k) ==
    IF k = 0
    THEN <<>>
    ELSE OptimalMultipliers(k - 1)
            \o (IF results.opt_status[k] = "Optimal"
                THEN <<results.price_scenarios[k]>> ELSE <<>>)

\* C15: after any number of multipliers of a sweep, the scenarios list and the
\* greedy list each hold one entry per multiplier evaluated, in the order
\* evaluated; the optimized list holds exactly the entries of the multipliers
\* whose optimizer run was Optimal; every entry is what the dispatcher returns
\* for that multiplier's scenario, failed runs before it or not; and the sweep
\* returns only when every multiplier has been evaluated.
C15_FailuresIsolated ==
    InSweep =>
        /\ Len(results.scenarios) = results.n
        /\ Len(results.greedy) = results.n
        /\ Len(results.opt_status) = results.n
        /\ \A i \in 1..results.n :
              /\ results.scenarios[i].multiplier = results.price_scenarios[i]
              /\ results.greedy[i]
                    = sensitivity_entry(results.price_scenarios[i], GreedyPlanOf(i, TRUE))
        /\ [i \in 1..Len(results.optimized) |-> results.optimized[i].multiplier]
              = OptimalMultipliers(results.n)
        /\ \A i \in 1..Len(results.optimized) :
              \E r \in optimize_energy_mix(
                          scenario_call(call, "optimize_energy_mix",
                                        scenario_df(call.pattern, results.optimized[i].multiplier))) :
                  ~r.error /\ results.optimized[i] = sensitivity_entry(results.optimized[i].multiplier, r)
        /\ pc \in {"returned", "done"} => results.n = Len(results.price_scenarios)

\* a returned sweep of three multipliers whose optimizer runs all failed
C15_Witness ==
    /\ InSweep /\ pc = "returned"
    /\ results.n = 3
    /\ results.opt_status[1] # "Optimal"
    /\ results.optimized = <<>>
    /\ Len(results.greedy) = 3
    /\ Len(results.scenarios) = 3

-----------------------------------------------------------------------------
(* C16: the scenario series and the base series *)

\* C16: the scenario series built for a multiplier has the rows of the base
\* series with every price multiplied by the multiplier and demand and
\* availabilities unchanged, the hours (and so the timestamps) are the same,
\* and no step of the sweep changes the caller's base series.
C16_ScenarioDerivedBaseKept ==
    /\ [](InSweep /\ results.n > 0 =>
            LET multiplier == results.price_scenarios[results.n]
            IN  /\ Len(results.scenario_df) = Len(call.pattern)
                /\ \A i \in 1..Len(call.pattern) :
                      /\ R(results.scenario_df[i].price)
                            = RatMul(R(call.pattern[i].price), multiplier)
                      /\ results.scenario_df[i].demand = call.pattern[i].demand
                      /\ results.scenario_df[i].solar_available = call.pattern[i].solar_available
                      /\ results.scenario_df[i].wind_available = call.pattern[i].wind_available
                      /\ results.scenario_df[i].hydro_available = call.pattern[i].hydro_available)
    /\ [][call'.pattern = call.pattern /\ call'.hours = call.hours /\ call'.h0 = call.h0]_vars

\* a scenario series of two hours built for the multiplier 1.5, after the
\* series of another multiplier
C16_Witness ==
    /\ InSweep /\ results.n >= 2
    /\ results.price_scenarios[results.n] = Rat(3, 2)
    /\ Len(results.scenario_df) = 2
    /\ results.scenario_df[1].price > call.pattern[1].price
    /\ results.scenario_df[1].demand > 0

-----------------------------------------------------------------------------
(* C17, C18: calculate_elasticity *)

\* the entries of data in ascending order of multiplier
RECURSIVE SortedByMultiplier(_)
SortedByMultiplier(data) ==
    IF data = <<>>
    THEN <<>>
    ELSE LET i == CHOOSE k \in 1..Len(data) :
                    \A j \in 1..Len(data) : RatLe(data[k].multiplier, data[j].multiplier)
             rest == [j \in 1..(Len(data) - 1) |-> IF j < i THEN data[j] ELSE data[j + 1]]
         IN  <<data[i]>> \o SortedByMultiplier(rest)

ElasticityReturned == pc = "done" /\ call.entry = "run_price_sensitivity"

\* C17: the value calculate_elasticity returns for a report is the one it
\* returns for the same entries taken in ascending multiplier order: it does
\* not depend on the order in which the distinct positive multipliers were
\* passed to run_price_sensitivity.
C17_ElasticityOrderIndependent ==
    ElasticityReturned =>
        results.elasticity
            = calculate_elasticity(
                  [optimized |-> SortedByMultiplier(results.optimized),
                   greedy |-> SortedByMultiplier(results.greedy)],
                  results.strategy)

\* x / y for rationals, y # 0
ExactDiv(x, y) ==
    IF y.num > 0 THEN Rat(x.num * y.den, x.den * y.num)
    ELSE Rat(0 - x.num * y.den, x.den * (0 - y.num))

\* the sum of e_i = ((cost_i - cost_{i-1}) / cost_{i-1})
\*                   / ((m_i - m_{i-1}) / m_{i-1}) over the entries i.. of data
RECURSIVE SumOfElasticities(_, _)
SumOfElasticities(data, i) ==
    IF i > Len(data)
    THEN R(0)
    ELSE RatAdd(ExactDiv(ExactDiv(RatSub(data[i].total_cost, data[i - 1].total_cost),
                                  data[i - 1].total_cost),
                         ExactDiv(RatSub(data[i].multiplier, data[i - 1].multiplier),
                                  data[i - 1].multiplier)),
                SumOfElasticities(data, i + 1))

\* C18: calculate_elasticity(strategy) returns a well-defined number for
\* every report run_price_sensitivity can produce, including reports with
\* omitted optimizer entries or a recorded total_cost of 0: 0 when the
\* strategy has fewer than two recorded entries, otherwise the arithmetic mean
\* of e_i over all adjacent recorded entries.
C18_ElasticityWellDefined ==
    ElasticityReturned =>
        LET data == results[results.strategy]
        IN  /\ IsFinite(results.elasticity)
            /\ Len(data) < 2 => results.elasticity = R(0)
            /\ Len(data) >= 2 =>
                  RatMul(results.elasticity, R(Len(data) - 1)) = SumOfElasticities(data, 2)

-----------------------------------------------------------------------------
(* C19: the failure result of the optimizer *)

\* C19: when the solver status is not Optimal the optimizer returns a result
\* that carries that status and an error, with no per-hour records; it never
\* returns a result with status 'Greedy', and never per-hour records together
\* with an error.
C19_FailureCarriesNoPlan ==
    Done /\ call.entry \in Entries =>
        /\ results.status = solve_status
        /\ results.status # "Greedy"
        /\ results.status # "Optimal" =>
              /\ results.error
              /\ results.n = 0
              /\ "hour_result" \notin DOMAIN results
        /\ ~(results.error /\ results.n > 0)

\* a multi-day call whose end band cannot be reached: the result carries the
\* solver's status, an error and no rows
C19_Witness ==
    /\ Done
    /\ call.entry = "optimize_multiday_energy_mix"
    /\ results.status = "Infeasible"
    /\ results.error
    /\ results.n = 0

-----------------------------------------------------------------------------
(* C20: malformed series *)

\* a series given to optimize_multiday_energy_mix whose length is 24 * days
\* for no whole number of days
LengthMismatch ==
    call.entry = "optimize_multiday_energy_mix" /\ call.hours % HoursPerDay # 0

\* C20: a call to the optimizer with a malformed series (here: a length that
\* differs from the requested horizon, len(series) # 24*days) fails before
\* the model is constructed: no problem is built or solved for it and no
\* Optimal plan is returned.
C20_MalformedSeriesRejected ==
    LengthMismatch =>
        /\ pc \in {"start", "done"}
        /\ cost_to_go = <<>>
        /\ pc = "done" => results.status # "Optimal"

-----------------------------------------------------------------------------
(* C21, C22: the carbon-intensity lookup *)

IntensityReturned == pc = "done" /\ call.entry = "get_carbon_intensity"

\* the bands [lo, hi) of the hour and their multipliers, in hundredths
Bands ==
    { [lo |-> 0, hi |-> 6, mult100 |-> 85],
      [lo |-> 6, hi |-> 9, mult100 |-> 100],
      [lo |-> 9, hi |-> 17, mult100 |-> 115],
      [lo |-> 17, hi |-> 21, mult100 |-> 125],
      [lo |-> 21, hi |-> 24, mult100 |-> 95] }

BandOf(hour) == CHOOSE b \in Bands : b.lo <= hour /\ hour < b.hi

BaseFactor(source) ==
    IF source = "solar" THEN 45 ELSE IF source = "wind" THEN 12 ELSE 24

\* C21: for every hour in 0..23 and every source in {solar, wind, hydro},
\* get_carbon_intensity(hour, source) is the base factor (solar 45, wind 12,
\* hydro 24) times the multiplier of the half-open band holding the hour:
\* [0,6) 0.85, [6,9) 1.0, [9,17) 1.15, [17,21) 1.25, [21,24) 0.95.
C21_IntensityIsBaseTimesBand ==
    IntensityReturned /\ call.hour \in 0..23 /\ call.source \in {"solar", "wind", "hydro"} =>
        5 * results.value20 = BaseFactor(call.source) * BandOf(call.hour).mult100

\* the first hour of the evening band, for wind: 12 * 1.25 = 15
C21_Witness ==
    /\ IntensityReturned
    /\ call.hour = 17
    /\ call.source = "wind"
    /\ results.value20 = 300

\* C22: for every hour h >= 24 and every source, get_carbon_intensity(h, s)
\* is get_carbon_intensity(h mod 24, s); every row of the table of
\* get_all_carbon_intensities is the row of the same hour of the first day;
\* and the intensity used in the objective for hour t of a multi-day plan is
\* that of the same hour of day on the first day.
C22_HourTakenModulo24 ==
    /\ IntensityReturned /\ call.hour >= 24 =>
          results.value20 = get_carbon_intensity20(call.hour % 24, call.source)
    /\ pc = "done" /\ call.entry = "get_all_carbon_intensities" =>
          \A i \in 1..Len(results.data) :
              i > 24 => results.data[i] = results.data[i - 24]
    /\ pc = "done" =>
          \A c \in LongCalls : \A t \in 24..(c.hours - 1) : \A source \in Sources :
              objective_intensity20(c, t, source) = objective_intensity20(c, t - 24, source)

-----------------------------------------------------------------------------
(* C23: the totals over the optimal solutions *)

\* the column sums of every optimal solution of the problem solved
OptimalPlanSums == plan_sums(call, cost_to_go, 0, call.battery_initial10, NoSums)

\* C23: every optimal solution of the model built for a call has the same
\* total_cost, total_emissions and total_unmet, so that whichever of them the
\* solver returns, a re-run with identical inputs reports the totals of the
\* plan returned.
C23_TotalsSameOverOptima ==
    Optimal =>
        \A s \in OptimalPlanSums :
            /\ s.cost10 = results.total_cost10
            /\ total_emissions20(call, s) = results.total_emissions20
            /\ s.unmet = results.total_unmet

-----------------------------------------------------------------------------
(* C24: the merit order of the greedy dispatcher *)

\* an amount as a rational, 0 when not positive
Positive(x) == IF RatLt(R(0), x) THEN x ELSE R(0)

\* the demand of the plan's hour served by solar, then wind, then hydro
ServedBySolar == RatMin(R(PlanHour.solar_available), R(PlanHour.demand))

LeftAfterSolar == RatSub(R(PlanHour.demand), ServedBySolar)

ServedByWind == RatMin(R(PlanHour.wind_available), LeftAfterSolar)

LeftAfterWind == RatSub(LeftAfterSolar, ServedByWind)

ServedByHydro == RatMin(R(PlanHour.hydro_available), LeftAfterWind)

LeftAfterHydro == RatSub(LeftAfterWind, ServedByHydro)

\* generation not needed by the demand, all sources together
Leftover ==
    RatSub(RatAdd(RatAdd(R(PlanHour.solar_available), R(PlanHour.wind_available)),
                  R(PlanHour.hydro_available)),
           RatAdd(RatAdd(ServedBySolar, ServedByWind), ServedByHydro))

\* the part of a source's reported use that went to the demand: the reported
\* use less the source's share of the charge
ToDemand(use, available, served) ==
    IF RatLt(R(0), Leftover)
    THEN RatSub(use, RatDiv(RatMul(RatSub(R(available), served), PlanRow.battery_charge),
                            Leftover))
    ELSE use

\* C24: in every hour of a greedy plan the demand served from solar is
\* min(solar_available, demand), from wind min(wind_available, demand left
\* after solar), from hydro min(hydro_available, demand left after wind), and
\* the battery discharges min(remaining demand, max_rate, current level), and
\* only for demand the three sources could not serve.
C24_GreedyMeritOrder ==
    InGreedyPlan =>
        /\ ToDemand(PlanRow.solar_use, PlanHour.solar_available, ServedBySolar) = ServedBySolar
        /\ ToDemand(PlanRow.wind_use, PlanHour.wind_available, ServedByWind) = ServedByWind
        /\ ToDemand(PlanRow.hydro_use, PlanHour.hydro_available, ServedByHydro) = ServedByHydro
        /\ PlanRow.battery_discharge =
              IF RatLt(R(0), LeftAfterHydro)
              THEN RatMin3(LeftAfterHydro, Rat(call.battery_capacity, 5), results.level_before)
              ELSE R(0)

\* an hour whose demand takes all of solar and less than wind offers: wind
\* serves the rest, hydro none of it
C24_Witness ==
    /\ InGreedyPlan
    /\ PlanHour.demand > PlanHour.solar_available
    /\ PlanHour.solar_available > 0
    /\ PlanHour.wind_available > PlanHour.demand - PlanHour.solar_available
    /\ PlanHour.hydro_available > 0
    /\ PlanRow.solar_use = R(PlanHour.solar_available)
    /\ PlanRow.wind_use = R(PlanHour.demand - PlanHour.solar_available)
    /\ PlanRow.hydro_use = R(0)
    /\ PlanRow.battery_discharge = R(0)

-----------------------------------------------------------------------------
(* C25: charging and discharging in the same hour *)

-----------------------------------------------------------------------------
(* C26: the demand balance of a greedy row *)

\* C26: in every row of a greedy plan the reported values satisfy
\* solar_use + wind_use + hydro_use + battery_discharge - battery_charge
\* + unmet_demand = demand.
C26_GreedyDemandBalance ==
    InGreedyPlan =>
        RatAdd(RatSub(RatAdd(RatAdd(RatAdd(PlanRow.solar_use, PlanRow.wind_use),
                                    PlanRow.hydro_use),
                             PlanRow.battery_discharge),
                      PlanRow.battery_charge),
               PlanRow.unmet_demand)
        = R(PlanHour.demand)

\* a row that serves demand and charges from the excess of two sources, the
\* charge cut by the room left in the battery
C26_Witness ==
    /\ InGreedyPlan
    /\ PlanHour.demand > 0
    /\ RatLt(R(0), PlanRow.battery_charge)
    /\ RatLt(PlanRow.battery_charge, Rat(call.battery_capacity, 5))
    /\ RatLt(R(PlanHour.demand), RatAdd(PlanRow.solar_use, PlanRow.wind_use))
    /\ RatLt(PlanRow.solar_use, R(PlanHour.solar_available))
    /\ RatLt(R(0), PlanRow.hydro_use)

-----------------------------------------------------------------------------
(* C27: greedy never charges and discharges in the same hour *)

\* C27: in every row of a greedy plan at most one of battery_charge and
\* battery_discharge is nonzero, and a row that discharges has used all three
\* sources in full.
C27_GreedyChargeOrDischarge ==
    InGreedyPlan =>
        /\ PlanRow.battery_charge = R(0) \/ PlanRow.battery_discharge = R(0)
        /\ RatLt(R(0), PlanRow.battery_discharge) =>
              /\ PlanRow.solar_use = R(PlanHour.solar_available)
              /\ PlanRow.wind_use = R(PlanHour.wind_available)
              /\ PlanRow.hydro_use = R(PlanHour.hydro_available)

\* an hour that discharges what an earlier hour of the plan charged
C27_Witness ==
    /\ InGreedyPlan
    /\ RatLt(R(0), PlanRow.battery_discharge)
    /\ PlanRow.battery_charge = R(0)
    /\ RatLt(Rat(call.battery_initial10, 10), results.level_before)

-----------------------------------------------------------------------------
(* C28: a greedy plan is a feasible point of the optimizer's problem *)

\* the initial charge is within the battery
ValidBattery ==
    0 <= call.battery_initial10 /\ call.battery_initial10 <= 10 * call.battery_capacity

\* C28: for a valid input, with battery_level[0] the initial charge and
\* battery_level[t+1] the level reported in row t, every row of the greedy
\* plan satisfies the constraints optimize_energy_mix builds for the hour:
\* the variables are non-negative, the demand balance, the three availability
\* caps, the dynamics level' = level + 0.9*charge - discharge, the charge,
\* discharge and combined rate limits, and the level bounds [0, capacity].
C28_GreedyFeasibleForOptimizer ==
    InGreedyPlan /\ ValidBattery =>
        /\ PlanRow.hour = 0 => results.level_before = Rat(call.battery_initial10, 10)
        /\ \A x \in {PlanRow.solar_use, PlanRow.wind_use, PlanRow.hydro_use,
                     PlanRow.battery_charge, PlanRow.battery_discharge,
                     PlanRow.unmet_demand} : RatLe(R(0), x)
        /\ RatAdd(RatSub(RatAdd(RatAdd(RatAdd(PlanRow.solar_use, PlanRow.wind_use),
                                       PlanRow.hydro_use),
                                PlanRow.battery_discharge),
                         PlanRow.battery_charge),
                  PlanRow.unmet_demand)
              = R(Row(call, PlanRow.hour).demand)
        /\ RatLe(PlanRow.solar_use, R(source_limit(PlanHour, "solar")))
        /\ RatLe(PlanRow.wind_use, R(source_limit(PlanHour, "wind")))
        /\ RatLe(PlanRow.hydro_use, R(source_limit(PlanHour, "hydro")))
        /\ PlanRow.battery_level
              = RatSub(RatAdd(results.level_before,
                              RatMul(Rat(efficiency10, 10), PlanRow.battery_charge)),
                       PlanRow.battery_discharge)
        /\ RatLe(PlanRow.battery_charge, R(charge_rate(call)))
        /\ RatLe(PlanRow.battery_discharge, R(discharge_rate(call)))
        /\ RatLe(RatAdd(PlanRow.battery_charge, PlanRow.battery_discharge),
                 R(no_simultaneous(call)))
        /\ RatLe(R(0), results.level_before)
        /\ RatLe(results.level_before, R(call.battery_capacity))
        /\ RatLe(R(0), PlanRow.battery_level)
        /\ RatLe(PlanRow.battery_level, R(call.battery_capacity))

\* a later hour of a plan that discharges at max_rate and still leaves
\* demand unmet
C28_Witness ==
    /\ InGreedyPlan /\ ValidBattery
    /\ PlanRow.hour > 0
    /\ PlanRow.battery_discharge = R(discharge_rate(call))
    /\ RatLt(R(0), PlanRow.unmet_demand)
    /\ RatLt(R(0), PlanRow.battery_level)

-----------------------------------------------------------------------------
(* C29: the greedy plan does not depend on the price *)

\* the greedy plan of the base series of the sweep
GreedyBasePlan == greedy_energy_mix(scenario_call(call, "greedy_energy_mix", call.pattern))

\* the quantities of the rows of a plan: every column but the price
Quantities(hours) ==
    [i \in 1..Len(hours) |-> [f \in (DOMAIN hours[i]) \ {"price"} |-> hours[i][f]]]

\* C29: across the scenarios of a sweep the greedy per-hour quantities,
\* total_emissions and total_unmet are those of the greedy plan of the base
\* series, and the greedy total_cost recorded for multiplier m is m times the
\* greedy total_cost of the base series.
C29_GreedyPriceIndependent ==
    InSweep =>
        \A i \in 1..Len(results.greedy) :
            /\ Quantities(GreedyPlanOf(i, call.use_time_varying_carbon).hours)
                  = Quantities(GreedyBasePlan.hours)
            /\ results.greedy[i].total_emissions = GreedyBasePlan.total_emissions
            /\ results.greedy[i].total_unmet = GreedyBasePlan.total_unmet
            /\ results.greedy[i].total_cost
                  = RatMul(results.greedy[i].multiplier, GreedyBasePlan.total_cost)

\* a sweep of two hours that recorded greedy plans with a cost and unmet
\* demand at three different multipliers
C29_Witness ==
    /\ InSweep
    /\ call.hours = 2
    /\ Len(results.greedy) = 3
    /\ RatLt(R(0), results.greedy[1].total_cost)
    /\ results.greedy[1].total_cost # results.greedy[2].total_cost
    /\ results.greedy[2].total_cost # results.greedy[3].total_cost
    /\ RatLt(R(0), results.greedy[3].total_unmet)

-----------------------------------------------------------------------------
(* C30: the unmet-demand slack *)

\* C30: in every row of every Optimal plan, from either entry point,
\* 0 <= unmet_demand <= demand: the slack records a shortfall of the hour's
\* demand and is never the source of energy charged into the battery.
C30_UnmetWithinDemand ==
    InPlan =>
        /\ 0 <= PlanRow.unmet_demand
        /\ PlanRow.unmet_demand <= PlanHour.demand

=============================================================================
